---- MODULE Spec2Model ----
(***************************************************************************)
(* Model of src/app.py: the Strategy (MSTR) bitcoin-treasury dashboard.    *)
(* One run of the script is a sequential process; pc names the block that  *)
(* runs next.  Floating-point quantities are kept in fixed point:          *)
(*   bitcoin holdings               units of 10 BTC                        *)
(*   bitcoin spot price             units of 1000 USD                      *)
(*   market cap, treasury, nav, ev  units of 10 000 USD                    *)
(*   shares outstanding             units of 10 000 shares                 *)
(*   daily volume, estimated shares shares                                 *)
(*   share prices, proceeds         cents                                  *)
(*   ratios (mNAV, leverage)        hundredths                             *)
(*   issuance_pct                   millionths                             *)
(*   estimated BTC (estimators)     millionths of a BTC                    *)
(*   ledger BTC amounts             whole BTC; per-source allocations and  *)
(*                                  per-source cumulatives in 1/100 BTC    *)
(*   forecast budget and price      units of 10 USD                        *)
(* A pandas Timestamp is the integer yyyymmdd; NaT is 0.                   *)
(***************************************************************************)
EXTENDS Integers, Sequences, FiniteSets

\* ---------------------------------------------------------------- bounds
\* Longest purchases table the provider returns in the model.
MaxRows == 2

\* ------------------------------------------------------- program constants
\* Python's None (get_btc_price returns it on failure).
None == -1
\* pandas' NaT / NaN, the missing value of a column.
NaT == 0
NaN == None
\* get_btc_holdings fallback, 687410 BTC.
HoldingsFallback == 68741
\* approx_debt, approx_preferred_notional, approx_cash.
approx_debt == 800000
approx_preferred_notional == 800000
approx_cash == 219000
\* atm_threshold 100.05 USD, atm_pct 0.40 (percent), commission 0.025 (per mille).
atm_threshold == 10005
atm_pct == 40
commission == 25
\* annual_raise, 10^10 USD.
annual_raise == 1000000000
\* genesis year of date(2009, 1, 3) and the days left in 2009 after it.
genesis_year == 2009
genesis_rest == 362

Sources == <<"Common Stock", "Convertible Debt", "STRC", "STRK", "STRD", "STRF", "STRE">>
SourceSet == {Sources[i] : i \in 1..Len(Sources)}
Preferred == {"STRC", "STRK", "STRD", "STRF", "STRE"}

\* ----------------------------------------------------------------- helpers
Max(a, b) == IF a >= b THEN a ELSE b

RECURSIVE SumOver(_, _)
SumOver(f, S) ==
  IF S = {} THEN 0
  ELSE LET x == CHOOSE y \in S : TRUE IN f[x] + SumOver(f, S \ {x})

\* Python truthiness of a number-or-None.
Truthy(x) == x # None /\ x # 0

\* ------------------------------------------------------- provider results
\* get_btc_price: the quoted price, or None when the request or parse raises.
BtcPriceResults == {None, 0, 20, 95}

\* get_btc_holdings: the scraped integer, or the fallback.
BtcHoldingsResults == {HoldingsFallback, 50000}

ZeroQuote ==
  [market_cap |-> 0, shares_outstanding |-> 0, last_price |-> 0,
   daily_volume |-> 0, high |-> 0, low |-> 0]

\* get_stock_data("MSTR"): history present, history empty, or the zeroed
\* record of the except branch.
MstrQuotes ==
  { [market_cap |-> mc, shares_outstanding |-> 25000, last_price |-> 30000,
     daily_volume |-> 20000, high |-> 30500, low |-> 29500]
      : mc \in {3000000, 5149395, 6000000, 10298790, 15448185, 20000000} }
  \cup { [market_cap |-> 6000000, shares_outstanding |-> 0, last_price |-> 30000,
          daily_volume |-> 0, high |-> 30000, low |-> 30000],
         [market_cap |-> 0, shares_outstanding |-> 25000, last_price |-> 30000,
          daily_volume |-> 20000, high |-> 30500, low |-> 29500],
         ZeroQuote }

\* get_stock_data("STRC"): upstream does not enforce low <= last_price <= high.
StrcPrices == {9900, 10005, 10100}
StrcQuotes ==
  { [market_cap |-> 0, shares_outstanding |-> 0, last_price |-> lp,
     daily_volume |-> v, high |-> h, low |-> l]
      : lp \in {0, 10050}, v \in {0, 100}, h \in StrcPrices, l \in StrcPrices }
  \cup { ZeroQuote }

\* The end-to-end scenario of the specification: 687410 BTC at 95000 USD,
\* market cap 60e9, 250e6 shares.
ReferenceMstr ==
  [market_cap |-> 6000000, shares_outstanding |-> 25000, last_price |-> 30000,
   daily_volume |-> 20000, high |-> 30500, low |-> 29500]
ReferenceStrc ==
  [market_cap |-> 0, shares_outstanding |-> 0, last_price |-> 10050,
   daily_volume |-> 100, high |-> 10100, low |-> 9900]

\* --------------------------------------------------- valuation (158-171)
\* Faulty variant of the guard: `if btc_price is not None`.
GuardOk_NotNone(price, quote) == price # None

\* The guard of the main block: `if btc_price and mstr_data['market_cap'] > 0`.
GuardOk(price, quote) == Truthy(price) /\ quote.market_cap > 0

TreasuryValue(holdings, price) == holdings * price

\* btc_holdings / shares_outstanding, in millionths of a BTC per share.
BtcPerShare(holdings, quote) ==
  IF quote.shares_outstanding > 0
    THEN (holdings * 1000) \div quote.shares_outstanding
    ELSE 0

net_liabilities == approx_debt + approx_preferred_notional - approx_cash

EnterpriseValue(quote) == quote.market_cap + net_liabilities

LeverageAmplification(tv, quote) ==
  IF quote.market_cap > 0 THEN (tv * 100) \div quote.market_cap ELSE 0

Nav(tv) == tv - net_liabilities

\* market_cap / nav if nav > 0 else 0
PremiumToNav(quote, n) ==
  IF n > 0 THEN (quote.market_cap * 100) \div n ELSE 0

\* ------------------------------------------- STRC issuance estimator (208-224)
\* Faulty variant: `low > atm_threshold` sends high = low = threshold to the
\* interpolation arm.
StrcBranch_StrictLow(q) ==
  IF q.high >= atm_threshold
    THEN IF q.low > atm_threshold THEN "full" ELSE "interpolate"
    ELSE "zero"

\* Faulty variant: the low test is made before the high test.
StrcBranch_LowFirst(q) ==
  IF q.low >= atm_threshold THEN "full"
  ELSE IF q.high >= atm_threshold THEN "interpolate"
  ELSE "zero"

\* Which arm of the nested if at 212-219 a snapshot takes.
StrcBranch(q) ==
  IF q.high >= atm_threshold
    THEN IF q.low >= atm_threshold THEN "full" ELSE "interpolate"
    ELSE "zero"

\* The divisor of frac_above.
FracDivisor(q) == q.high - q.low

\* daily_volume * max(0, min(1, num / den)) for den # 0.
ClampedShare(dv, num, den) ==
  LET n == IF den > 0 THEN num ELSE 0 - num
      d == IF den > 0 THEN den ELSE 0 - den
  IN  IF n <= 0 THEN 0
      ELSE IF n >= d THEN dv
      ELSE (dv * n) \div d

\* volume_above; the interpolation arm is evaluated only with a non-zero divisor
\* (the action raises ZeroDivisionError otherwise).
VolumeAbove(q) ==
  CASE StrcBranch(q) = "full" -> q.daily_volume
    [] StrcBranch(q) = "zero" -> 0
    [] OTHER -> ClampedShare(q.daily_volume, q.high - atm_threshold, FracDivisor(q))

EstSharesIssued(va) == (va * atm_pct) \div 100
GrossProceeds(shares, q) == shares * q.last_price
NetProceeds(gross) == (gross * (1000 - commission)) \div 1000
\* proceeds / btc_price if btc_price > 0 else 0, in millionths of a BTC.
BtcFor(proceeds, price) == IF price > 0 THEN (proceeds * 10) \div price ELSE 0

\* ----------------------------------- common-stock issuance estimator (238-247)
\* Faulty variant: slope 0.05 in place of 0.049.
IssuancePct_Steep(p) ==
  IF p <= 100 THEN 1000
  ELSE IF p >= 300 THEN 50000
  ELSE 1000 + (50000 * (p - 100)) \div 200

IssuancePct(p) ==
  IF p <= 100 THEN 1000
  ELSE IF p >= 300 THEN 50000
  ELSE 1000 + (49000 * (p - 100)) \div 200

EstNewCommonShares(quote, pct) == (quote.daily_volume * pct) \div 1000000

\* ------------------------------------- purchase history provider (67-91)
YearOf(d) == d \div 10000

\* Rows of the scraped purchases table before cleaning: a 'Reported' cell that
\* does not parse becomes NaT (errors='coerce').
RawDates == {NaT, 20210224, 20240311, 20251215}
RawRows ==
  [Reported : RawDates, BTC_Acq : {0, 10000, 13627}, Cumulative_BTC : {21454, 90000}]

SeqsUpTo(S, n) == UNION { [1..k -> S] : k \in 0..n }

\* df.dropna(subset=['Reported'])
RECURSIVE DropNaT(_)
DropNaT(rows) ==
  IF rows = <<>> THEN <<>>
  ELSE IF Head(rows).Reported = NaT THEN DropNaT(Tail(rows))
  ELSE <<Head(rows)>> \o DropNaT(Tail(rows))

IsSortedByReported(rows) ==
  \A i \in 1..(Len(rows) - 1) : rows[i].Reported <= rows[i + 1].Reported

\* df.sort_values('Reported'): the rows in ascending report date; the order of
\* rows with equal dates is whatever the (unstable) sort leaves.
SortValues(rows) ==
  LET n == Len(rows)
      perms == { f \in [1..n -> 1..n] : \A i, j \in 1..n : f[i] = f[j] => i = j }
  IN  { s \in { [i \in 1..n |-> rows[f[i]]] : f \in perms } : IsSortedByReported(s) }

\* The sample frame of the else branch (83-88); its 'Reported' column holds
\* plain strings, never converted with pd.to_datetime.
SampleLedger ==
  << [Reported |-> 20200811, BTC_Acq |-> 21454, Cumulative_BTC |-> 21454],
     [Reported |-> 20210224, BTC_Acq |-> 19452, Cumulative_BTC |-> 90000],
     [Reported |-> 20240311, BTC_Acq |-> 12000, Cumulative_BTC |-> 300000],
     [Reported |-> 20251215, BTC_Acq |-> 10645, Cumulative_BTC |-> 671268],
     [Reported |-> 20260112, BTC_Acq |-> 13627, Cumulative_BTC |-> 687410] >>

\* What get_historical_purchases returns for each behaviour of the page:
\* "raises" (request or parsing raises), "no_table", "table" with raw rows.
\* A frame is its rows and the dtype of its 'Reported' column.
PurchasesFrames(outcome, raw) ==
  CASE outcome = "raises"   -> { [rows |-> <<>>, dtype |-> "none"] }
    [] outcome = "no_table" -> { [rows |-> SampleLedger, dtype |-> "str"] }
    [] OTHER -> { [rows |-> s, dtype |-> "datetime"] : s \in SortValues(DropNaT(raw)) }

\* ------------------------------------------ assign_funding_sources (94-118)
\* Percent of btcAcquired given to each source, by report-date year.
BucketWeights(year) ==
  [src \in SourceSet |->
     IF year <= 2022
       THEN (CASE src = "Convertible Debt" -> 80 [] src = "Common Stock" -> 20 [] OTHER -> 0)
     ELSE IF year = 2023 \/ year = 2024
       THEN (CASE src = "Common Stock" -> 70 [] src = "Convertible Debt" -> 30 [] OTHER -> 0)
     ELSE (CASE src = "Common Stock" -> 50 [] src = "Convertible Debt" -> 0 [] OTHER -> 10)]

Allocation(acq, weights) == [src \in SourceSet |-> acq * weights[src]]

\* df[source].cumsum() for every source: entry i is the sum of the first i
\* allocations.
RECURSIVE CumSum(_, _)
CumSum(allocs, i) ==
  IF i = 0 THEN [src \in SourceSet |-> 0]
  ELSE [src \in SourceSet |-> CumSum(allocs, i - 1)[src] + allocs[i][src]]

AssignFundingSources(rows) ==
  LET allocs == [i \in 1..Len(rows) |->
                   Allocation(rows[i].BTC_Acq, BucketWeights(YearOf(rows[i].Reported)))]
  IN  [i \in 1..Len(rows) |->
         [Reported |-> rows[i].Reported, BTC_Acq |-> rows[i].BTC_Acq,
          Cumulative_BTC |-> rows[i].Cumulative_BTC,
          alloc |-> allocs[i], cum |-> CumSum(allocs, i)]]

\* ------------------------------------------- forecast_acquisitions (121-144)
Horizon == 10

IsLeap(y) == (y % 4 = 0 /\ y % 100 # 0) \/ y % 400 = 0

\* (datetime(year, 12, 31).date() - genesis).days
RECURSIVE DaysSinceGenesis(_)
DaysSinceGenesis(year) ==
  IF year <= genesis_year THEN genesis_rest
  ELSE DaysSinceGenesis(year - 1) + (IF IsLeap(year) THEN 366 ELSE 365)

\* 10 ** -1.847796462 * (days / 365.25) ** 5.616314045, tabulated at the
\* year-end day counts, in units of 10 USD (rounded down).
PowerLawTable ==
  { <<4745, 2551>>, <<5110, 3868>>, <<5475, 5699>>, <<5841, 8197>>,
    <<6206, 11521>>, <<6571, 15882>>, <<6936, 21516>>, <<7302, 28720>>,
    <<7667, 37771>>, <<8032, 49046>>, <<8397, 62951>>, <<8763, 79996>>,
    <<9128, 100601>>, <<9493, 125383>>, <<9858, 154975>>, <<10224, 190187>>,
    <<10589, 231601>>, <<10954, 280156>>, <<11319, 336783>>, <<11685, 402691>>,
    <<12050, 478626>> }

ProjPrice(days) == (CHOOSE e \in PowerLawTable : e[1] = days)[2]

BtcAdded(year) == annual_raise \div ProjPrice(DaysSinceGenesis(year))

\* Faulty variant: 10% for each preferred, as in the 2025 bucket.
ForecastWeights_Ten ==
  [src \in SourceSet |->
     CASE src = "Common Stock" -> 30 [] src = "Convertible Debt" -> 10 [] OTHER -> 10]

\* 30% common, 10% convertible, 12% for each preferred.
ForecastWeights ==
  [src \in SourceSet |->
     CASE src = "Common Stock" -> 30 [] src = "Convertible Debt" -> 10 [] OTHER -> 12]

\* future_df as built at 124-127: one row per year end, everything else zero
\* and no 'Cumulative BTC' column yet.
NewFutureFrame(last) ==
  [i \in 1..Horizon |->
     [Reported |-> (YearOf(last) + i) * 10000 + 1231, BTC_Acq |-> 0,
      Cumulative_BTC |-> NaN, alloc |-> [src \in SourceSet |-> 0]]]

\* One pass of the loop body 130-141 on row idx.
ForecastRow(row, cum) ==
  LET added == BtcAdded(YearOf(row.Reported))
  IN  [Reported |-> row.Reported, BTC_Acq |-> added,
       Cumulative_BTC |-> cum + added,
       alloc |-> Allocation(added, ForecastWeights)]

\* df_hist['Reported'].max() and df_hist['Cumulative BTC'].max()
RECURSIVE MaxOf(_, _)
MaxOf(rows, field) ==
  IF Len(rows) = 1 THEN rows[1][field]
  ELSE Max(rows[1][field], MaxOf(Tail(rows), field))

\* ------------------------------------------------------------------ state
VARIABLES
  pc,            \* the block of the script that runs next
  exc,           \* the uncaught exception that ended the run, or "none"
  out,           \* what the run has written to the page (st.table, st.markdown, ...)
  bound,         \* the module-level names bound so far
  btc_holdings, btc_price, mstr_data, strc_data,
  treasury_value, btc_per_share, ev, leverage_amplification, nav, premium_to_nav,
  volume_above, est_shares_issued, gross_proceeds, net_proceeds, est_btc_from_strc,
  issuance_pct, est_new_common_shares, est_proceeds_common, est_btc_from_common,
  page,          \* how the purchases page behaved: "raises", "no_table", "table"
  df_hist,       \* the frame of get_historical_purchases / assign_funding_sources
  last_date, last_cum_btc,
  future_df, cum_btc, idx,   \* locals of forecast_acquisitions
  df_all

ctl      == <<pc, exc, out, bound>>
market   == <<btc_holdings, btc_price, mstr_data, strc_data>>
valuation == <<treasury_value, btc_per_share, ev, leverage_amplification, nav,
               premium_to_nav>>
strcEst  == <<volume_above, est_shares_issued, gross_proceeds, net_proceeds,
              est_btc_from_strc>>
commonEst == <<issuance_pct, est_new_common_shares, est_proceeds_common,
               est_btc_from_common>>
history  == <<page, df_hist>>
forecast == <<last_date, last_cum_btc, future_df, cum_btc, idx, df_all>>
vars == <<ctl, market, valuation, strcEst, commonEst, history, forecast>>

NoFrame == [rows |-> <<>>, dtype |-> "none"]

Init ==
  /\ pc = "fetch" /\ exc = "none" /\ out = {}
  /\ bound = {"get_btc_price", "get_btc_holdings", "get_stock_data",
              "get_historical_purchases", "assign_funding_sources",
              "forecast_acquisitions"}
  /\ btc_holdings = 0 /\ btc_price = None
  /\ mstr_data = ZeroQuote /\ strc_data = ZeroQuote
  /\ treasury_value = 0 /\ btc_per_share = 0 /\ ev = 0
  /\ leverage_amplification = 0 /\ nav = 0 /\ premium_to_nav = 0
  /\ volume_above = 0 /\ est_shares_issued = 0 /\ gross_proceeds = 0
  /\ net_proceeds = 0 /\ est_btc_from_strc = 0
  /\ issuance_pct = 0 /\ est_new_common_shares = 0 /\ est_proceeds_common = 0
  /\ est_btc_from_common = 0
  /\ page = "none" /\ df_hist = NoFrame
  /\ last_date = NaT /\ last_cum_btc = 0
  /\ future_df = <<>> /\ cum_btc = 0 /\ idx = 0 /\ df_all = <<>>

\* An uncaught exception ends the run.
Raise(name) == pc' = "raised" /\ exc' = name

\* ----------------------------------------------------------------- actions
\* 153-156: the four provider calls.
Fetch ==
  /\ pc = "fetch"
  /\ \E h \in BtcHoldingsResults, p \in BtcPriceResults,
        m \in MstrQuotes, s \in StrcQuotes :
       /\ btc_holdings' = h /\ btc_price' = p
       /\ mstr_data' = m /\ strc_data' = s
  /\ pc' = "guard"
  /\ bound' = bound \cup {"btc_holdings", "btc_price", "mstr_data", "strc_data"}
  /\ UNCHANGED <<exc, out, valuation, strcEst, commonEst, history, forecast>>

\* 158, 285-286: the guard fails and the run reports the failure.
GuardFail ==
  /\ pc = "guard"
  /\ ~GuardOk(btc_price, mstr_data)
  /\ out' = out \cup {"error: required data"}
  /\ pc' = "done"
  /\ UNCHANGED <<exc, bound, market, valuation, strcEst, commonEst, history, forecast>>

\* 158-199: the guard passes; valuation metrics and the Key Metrics table.
Valuation ==
  /\ pc = "guard"
  /\ GuardOk(btc_price, mstr_data)
  /\ treasury_value' = TreasuryValue(btc_holdings, btc_price)
  /\ btc_per_share' = BtcPerShare(btc_holdings, mstr_data)
  /\ ev' = EnterpriseValue(mstr_data)
  /\ leverage_amplification' = LeverageAmplification(treasury_value', mstr_data)
  /\ nav' = Nav(treasury_value')
  /\ premium_to_nav' = PremiumToNav(mstr_data, nav')
  /\ out' = out \cup {"key metrics"}
  /\ bound' = bound \cup {"treasury_value", "btc_per_share", "approx_debt",
                          "approx_preferred_notional", "approx_cash",
                          "net_liabilities", "ev", "leverage_amplification",
                          "nav", "premium_to_nav", "data"}
  /\ pc' = "strc"
  /\ UNCHANGED <<exc, market, strcEst, commonEst, history, forecast>>

\* 206-234: estimated daily BTC from STRC issuance.
StrcEstimator ==
  /\ pc = "strc"
  /\ IF StrcBranch(strc_data) = "interpolate" /\ FracDivisor(strc_data) = 0
       THEN /\ Raise("ZeroDivisionError")
            /\ bound' = bound \cup {"atm_threshold", "atm_pct", "commission"}
            /\ UNCHANGED <<out, strcEst>>
       ELSE /\ volume_above' = VolumeAbove(strc_data)
            /\ est_shares_issued' = EstSharesIssued(volume_above')
            /\ gross_proceeds' = GrossProceeds(est_shares_issued', strc_data)
            /\ net_proceeds' = NetProceeds(gross_proceeds')
            /\ est_btc_from_strc' = BtcFor(net_proceeds', btc_price)
            /\ out' = out \cup {"strc estimate"}
            /\ bound' = bound \cup {"atm_threshold", "atm_pct", "commission",
                                    "volume_above", "est_shares_issued",
                                    "gross_proceeds", "net_proceeds",
                                    "est_btc_from_strc"}
            /\ pc' = "common"
            /\ exc' = exc
  /\ UNCHANGED <<market, valuation, commonEst, history, forecast>>

\* 236-256: estimated daily common-stock issuance.
CommonEstimator ==
  /\ pc = "common"
  /\ issuance_pct' = IssuancePct(premium_to_nav)
  /\ est_new_common_shares' = EstNewCommonShares(mstr_data, issuance_pct')
  /\ est_proceeds_common' = est_new_common_shares' * mstr_data.last_price
  /\ est_btc_from_common' = BtcFor(est_proceeds_common', btc_price)
  /\ out' = out \cup {"common estimate"}
  /\ bound' = bound \cup {"issuance_pct", "est_new_common_shares",
                          "est_proceeds_common", "est_btc_from_common"}
  /\ pc' = "history"
  /\ UNCHANGED <<exc, market, valuation, strcEst, history, forecast>>

\* The market snapshot of the end-to-end scenario.  The purchases page and the
\* market snapshot are independent inputs: every ledger is explored under this
\* snapshot, and every snapshot under the short ledgers.
ReferenceMarket ==
  /\ btc_holdings = HoldingsFallback /\ btc_price = 95
  /\ mstr_data = ReferenceMstr /\ strc_data = ReferenceStrc

ShortLedgers ==
  SeqsUpTo({[Reported |-> 20251215, BTC_Acq |-> 10645, Cumulative_BTC |-> 90000]}, 1)

RawLedgers == IF ReferenceMarket THEN SeqsUpTo(RawRows, MaxRows) ELSE ShortLedgers

\* 260, 67-91: df_hist = get_historical_purchases()
GetHistoricalPurchases ==
  /\ pc = "history"
  /\ \E outcome \in {"raises", "no_table", "table"}, raw \in RawLedgers :
       /\ page' = outcome
       /\ df_hist' \in PurchasesFrames(outcome, raw)
       /\ out' = out \cup (CASE outcome = "raises" -> {"error: scraping purchases"}
                             [] outcome = "no_table" -> {"warning: sample data"}
                             [] OTHER -> {})
  /\ bound' = bound \cup {"df_hist"}
  /\ pc' = "attribution"
  /\ UNCHANGED <<exc, market, valuation, strcEst, commonEst, forecast>>

\* 261, 282-283: the frame is empty.
HistoryEmpty ==
  /\ pc = "attribution"
  /\ df_hist.rows = <<>>
  /\ out' = out \cup {"error: historical data"}
  /\ pc' = "done"
  /\ UNCHANGED <<exc, bound, market, valuation, strcEst, commonEst, history, forecast>>

\* 262, 94-118: df_hist, sources = assign_funding_sources(df_hist).
\* row['Reported'].year raises on the first row when the column holds strings.
Attribution ==
  /\ pc = "attribution"
  /\ df_hist.rows # <<>>
  /\ IF df_hist.dtype = "str"
       THEN /\ Raise("AttributeError")
            /\ UNCHANGED <<bound, df_hist>>
       ELSE /\ df_hist' = [df_hist EXCEPT !.rows = AssignFundingSources(df_hist.rows)]
            /\ bound' = bound \cup {"sources"}
            /\ pc' = "forecast"
            /\ exc' = exc
  /\ UNCHANGED <<out, page, market, valuation, strcEst, commonEst, forecast>>

\* 263-265, 121-128: last_date, last_cum_btc, and the entry of
\* forecast_acquisitions up to the loop.
ForecastEnter ==
  /\ pc = "forecast"
  /\ last_date' = MaxOf(df_hist.rows, "Reported")
  /\ last_cum_btc' = MaxOf(df_hist.rows, "Cumulative_BTC")
  /\ future_df' = NewFutureFrame(last_date')
  /\ cum_btc' = last_cum_btc'
  /\ idx' = 1
  /\ bound' = bound \cup {"last_date", "last_cum_btc"}
  /\ pc' = "forecast_loop"
  /\ UNCHANGED <<exc, out, df_all, market, valuation, strcEst, commonEst, history>>

\* 129-141: one iteration of the loop over future_df.
ForecastStep ==
  /\ pc = "forecast_loop"
  /\ idx <= Len(future_df)
  /\ future_df' = [future_df EXCEPT ![idx] = ForecastRow(future_df[idx], cum_btc)]
  /\ cum_btc' = future_df'[idx].Cumulative_BTC
  /\ idx' = idx + 1
  /\ UNCHANGED <<ctl, last_date, last_cum_btc, df_all, market, valuation, strcEst,
                 commonEst, history>>

\* The module-level name read at 143 for the historical tail.
TailFrameName == "df"

\* The frame a module-level name is bound to.
GlobalFrame(name) == IF name = "df_hist" THEN df_hist.rows ELSE <<>>

\* 142-143: the per-source cumulative columns of future_df, chained from tail.
ChainCumulative(rows, tail) ==
  LET allocs == [i \in 1..Len(rows) |-> rows[i].alloc]
  IN  [i \in 1..Len(rows) |->
         [Reported |-> rows[i].Reported, BTC_Acq |-> rows[i].BTC_Acq,
          Cumulative_BTC |-> rows[i].Cumulative_BTC, alloc |-> rows[i].alloc,
          cum |-> [src \in SourceSet |->
                     CumSum(allocs, i)[src] + tail[Len(tail)].cum[src]]]]

\* 142-144 and 266-281: the cumulative columns, the return, the concatenation
\* and the chart.  The lookup of an unbound module-level name raises NameError.
ForecastFinish ==
  /\ pc = "forecast_loop"
  /\ idx > Len(future_df)
  /\ IF TailFrameName \notin bound
       THEN /\ Raise("NameError")
            /\ UNCHANGED <<out, bound, future_df, df_all>>
       ELSE /\ future_df' = ChainCumulative(future_df, GlobalFrame(TailFrameName))
            /\ df_all' = df_hist.rows \o future_df'
            /\ out' = out \cup {"chart", "forecast note"}
            /\ bound' = bound \cup {"df_future", "df_all", "fig", "ax", "cum_cols"}
            /\ pc' = "done"
            /\ exc' = exc
  /\ UNCHANGED <<last_date, last_cum_btc, cum_btc, idx, market, valuation, strcEst,
                 commonEst, history>>

Next ==
  \/ Fetch
  \/ GuardFail
  \/ Valuation
  \/ StrcEstimator
  \/ CommonEstimator
  \/ GetHistoricalPurchases
  \/ HistoryEmpty
  \/ Attribution
  \/ ForecastEnter
  \/ ForecastStep
  \/ ForecastFinish

Spec == Init /\ [][Next]_vars

\* ------------------------------------------------------------- properties
\* Largest premium (hundredths) over which the issuance curve is examined.
MaxPremium == 400

Attributed == "sources" \in bound
ForecastEntered == "last_date" \in bound
ForecastLeft == ForecastEntered /\ pc \in {"done", "raised"}
StrcEstimated == "volume_above" \in bound
CommonEstimated == "issuance_pct" \in bound
Valued == "premium_to_nav" \in bound

AllocationsSum(row) == SumOver(row.alloc, SourceSet) = row.BTC_Acq * 100

\* C1: every record processed by assign_funding_sources, in any year bucket,
\* and every record generated by forecast_acquisitions has per-source
\* allocations that sum to its btcAcquired; a 2021 record of 10000 BTC gets
\* Convertible Debt 8000, Common Stock 2000 and nothing for the preferreds.
C1_AllocationsSumToAcquired ==
  /\ Attributed =>
       \A i \in 1..Len(df_hist.rows) :
         LET row == df_hist.rows[i] IN
           /\ AllocationsSum(row)
           /\ (YearOf(row.Reported) = 2021 /\ row.BTC_Acq = 10000) =>
                /\ row.alloc["Convertible Debt"] = 800000
                /\ row.alloc["Common Stock"] = 200000
                /\ \A src \in Preferred : row.alloc[src] = 0
  /\ \A i \in 1..Len(future_df) : AllocationsSum(future_df[i])

C1_Witness ==
  /\ Attributed
  /\ \E i \in 1..Len(df_hist.rows) :
       YearOf(df_hist.rows[i].Reported) = 2021 /\ df_hist.rows[i].BTC_Acq = 10000
  /\ \E i \in 1..Len(df_hist.rows) :
       YearOf(df_hist.rows[i].Reported) >= 2025 /\ df_hist.rows[i].BTC_Acq > 0
  /\ idx > Horizon
  /\ future_df[Horizon].BTC_Acq > 0

\* C2: once forecast_acquisitions has run, every per-source cumulative series
\* over the historical ledger followed by the forecast is non-decreasing, and
\* the first forecast record's per-source cumulative is the last historical
\* one plus that record's allocation.
C2_ForecastChainsFromTail ==
  ForecastLeft =>
    /\ exc = "none"
    /\ Len(df_all) = Len(df_hist.rows) + Horizon
    /\ \A src \in SourceSet :
         /\ \A i \in 1..(Len(df_all) - 1) : df_all[i].cum[src] <= df_all[i + 1].cum[src]
         /\ LET n == Len(df_hist.rows) IN
              df_all[n + 1].cum[src] = df_all[n].cum[src] + df_all[n + 1].alloc[src]

\* The cumulativeBtc column of the historical ledger followed by the forecast
\* records generated so far, and their dates.
CumulativeSeries ==
  [i \in 1..(Len(df_hist.rows) + idx - 1) |->
     IF i <= Len(df_hist.rows) THEN df_hist.rows[i].Cumulative_BTC
     ELSE future_df[i - Len(df_hist.rows)].Cumulative_BTC]
DateSeries ==
  [i \in 1..(Len(df_hist.rows) + idx - 1) |->
     IF i <= Len(df_hist.rows) THEN df_hist.rows[i].Reported
     ELSE future_df[i - Len(df_hist.rows)].Reported]

\* C3: the cumulativeBtc series of the historical ledger followed by the ten
\* forecast records is non-decreasing, strictly increasing from the last
\* historical record on, each forecast date strictly exceeds the previous
\* record's date, and the run yields that concatenated series.
C3_CumulativeTotalMonotone ==
  /\ (ForecastEntered /\ idx > 1) =>
       LET n == Len(df_hist.rows) IN
         /\ \A i \in 1..(n + idx - 2) : CumulativeSeries[i] <= CumulativeSeries[i + 1]
         /\ \A i \in n..(n + idx - 2) :
              /\ CumulativeSeries[i] < CumulativeSeries[i + 1]
              /\ DateSeries[i] < DateSeries[i + 1]
  /\ ForecastLeft => (exc = "none" /\ Len(df_all) = Len(df_hist.rows) + Horizon)

\* C4: the interpolation quotient is never evaluated with high - low = 0; a
\* snapshot with high = low and high >= threshold takes the full-volume arm.
C4_NoZeroDivisor ==
  /\ exc # "ZeroDivisionError"
  /\ (pc = "strc" /\ StrcBranch(strc_data) = "interpolate") => FracDivisor(strc_data) # 0
  /\ (StrcEstimated /\ strc_data.high = strc_data.low
        /\ strc_data.high >= atm_threshold) =>
       volume_above = strc_data.daily_volume

C4_Witness ==
  /\ StrcEstimated
  /\ strc_data.high = atm_threshold /\ strc_data.low = atm_threshold
  /\ strc_data.daily_volume > 0
  /\ volume_above = strc_data.daily_volume

\* C5: issuance_pct is 0.001 up to a premium of 1.0, 0.05 from 3.0 on and
\* 0.001 + 0.049 * (premium - 1.0) / 2.0 in between; 0.0255 at 2.0; it has no
\* jump at the breakpoints, never decreases and stays within [0.001, 0.05].
\* The curve is examined over every premium up to MaxPremium where the
\* estimator is about to run, and on the premium the run gives it.
PiecewiseLinear(p, f) ==
  /\ p <= 100 => f = 1000
  /\ p >= 300 => f = 50000
  /\ (100 < p /\ p < 300) => 200 * (f - 1000) = 49000 * (p - 100)

C5_IssuanceFractionCurve ==
  /\ CommonEstimated => PiecewiseLinear(premium_to_nav, issuance_pct)
  /\ pc = "common" =>
       \A p \in 0..MaxPremium :
         /\ PiecewiseLinear(p, IssuancePct(p))
         /\ 1000 <= IssuancePct(p) /\ IssuancePct(p) <= 50000
         /\ IssuancePct(p) <= IssuancePct(p + 1)
         /\ IssuancePct(p + 1) - IssuancePct(p) <= 245
  /\ IssuancePct(100) = 1000 /\ IssuancePct(200) = 25500 /\ IssuancePct(300) = 50000

C5_Witness ==
  /\ CommonEstimated
  /\ premium_to_nav = 200
  /\ issuance_pct = 25500

\* C6: with the spot price None or 0, or the MSTR market cap 0, the run reports
\* total failure and emits no metric, estimate or attribution/forecast output;
\* whenever any of those is emitted, spot price > 0 and market cap > 0.
GuardedOutputs ==
  {"key metrics", "strc estimate", "common estimate", "chart", "forecast note",
   "warning: sample data", "error: scraping purchases", "error: historical data"}

C6_TotalFailureOnMissingInputs ==
  /\ (pc # "fetch" /\ (btc_price \in {None, 0} \/ mstr_data.market_cap = 0)) =>
       /\ out \cap GuardedOutputs = {}
       /\ ~Valued /\ ~StrcEstimated /\ ~CommonEstimated /\ ~Attributed
       /\ df_hist = NoFrame /\ future_df = <<>>
       /\ pc \in {"guard", "done"}
       /\ pc = "done" => out = {"error: required data"}
  /\ (out \cap GuardedOutputs # {} \/ Valued) =>
       /\ btc_price > 0 /\ mstr_data.market_cap > 0
       /\ "error: required data" \notin out

C6_Witness ==
  /\ pc = "done"
  /\ btc_price = 0
  /\ mstr_data.market_cap > 0
  /\ out = {"error: required data"}

\* The base columns of a frame, without the attribution columns.
BaseRows(rows) ==
  [i \in 1..Len(rows) |->
     [Reported |-> rows[i].Reported, BTC_Acq |-> rows[i].BTC_Acq,
      Cumulative_BTC |-> rows[i].Cumulative_BTC]]

\* C7: whenever the purchases provider fails (the request or parsing raises,
\* or no table is found), get_historical_purchases yields the fallback sample
\* ledger and the run completes attribution and forecast on it.
C7_FallbackLedgerOnProviderFailure ==
  page \in {"raises", "no_table"} =>
    /\ BaseRows(df_hist.rows) = SampleLedger
    /\ pc \in {"done", "raised"} =>
         /\ exc = "none"
         /\ Attributed
         /\ {"chart", "forecast note"} \subseteq out

\* C8: premium_to_nav is market_cap / nav when nav > 0; when nav <= 0 it is
\* reported as unavailable, not as the number 0, and no issuance fraction is
\* derived from it as if it were a premium of 0.
C8_PremiumUnavailableWhenNavNotPositive ==
  Valued =>
    /\ nav = treasury_value - net_liabilities
    /\ nav > 0 =>
         /\ premium_to_nav * nav <= mstr_data.market_cap * 100
         /\ mstr_data.market_cap * 100 < (premium_to_nav + 1) * nav
    /\ nav <= 0 =>
         /\ premium_to_nav = None
         /\ CommonEstimated => issuance_pct # IssuancePct(0)

CumulativeMonotone(rows) ==
  \A i \in 1..(Len(rows) - 1) : rows[i].Cumulative_BTC <= rows[i + 1].Cumulative_BTC

\* C9: a ledger that is not in ascending report-date order, or whose reported
\* cumulativeBtc is not non-decreasing, never reaches assign_funding_sources
\* and forecast_acquisitions: it is re-sorted or the run ends with a fault.
C9_LedgerValidatedBeforeAttribution ==
  (Attributed \/ ForecastEntered) =>
    /\ IsSortedByReported(df_hist.rows)
    /\ CumulativeMonotone(df_hist.rows)

\* C10: for every STRC snapshot, low > high included, 0 <= volume_above <=
\* daily_volume, volume_above = 0 when high < threshold, and the estimated
\* shares, net proceeds and BTC are never negative and never above what the
\* full daily volume gives.
C10_VolumeAboveWithinDailyVolume ==
  StrcEstimated =>
    LET q == strc_data
        fullShares == EstSharesIssued(q.daily_volume)
        fullNet == NetProceeds(GrossProceeds(fullShares, q))
    IN  /\ 0 <= volume_above /\ volume_above <= q.daily_volume
        /\ q.high < atm_threshold => (volume_above = 0 /\ est_btc_from_strc = 0)
        /\ 0 <= est_shares_issued /\ est_shares_issued <= fullShares
        /\ 0 <= net_proceeds /\ net_proceeds <= fullNet
        /\ 0 <= est_btc_from_strc /\ est_btc_from_strc <= BtcFor(fullNet, btc_price)

C10_Witness ==
  /\ StrcEstimated
  /\ strc_data.low > strc_data.high
  /\ strc_data.high < atm_threshold
  /\ strc_data.daily_volume > 0 /\ strc_data.last_price > 0
  /\ volume_above = 0

====
